---- MODULE Spec2Model ----
(***************************************************************************)
(* Model of the TOP MONDE ranking pipeline (src/src/top_monde_ranking.py)  *)
(* and of the column check of src/src/ticker_list.py.                      *)
(*                                                                         *)
(* Numbers are exact rationals n/d plus the IEEE specials NaN, +inf, -inf  *)
(* that pandas produces for missing cells and for division by zero.        *)
(* Binary floating-point representation error is not modelled.             *)
(***************************************************************************)
EXTENDS Integers, Sequences, FiniteSets, TLC

(***************************************************************************)
(* Bounds of the model.                                                    *)
(***************************************************************************)
MaxRows == 2
MaxRequired == 3
MaxFiles == 2
MaxRuns == 2

VARIABLES
    df,        \* the DataFrame _process_dataframe is working on
    df0,       \* the DataFrame it was given
    out1,      \* the result of the first application, kept for the second
    pc,        \* position inside the function being run
    required_columns,  \* the column check: the names asked for
    missing_columns,   \* the column check: its result
    waiting_room,      \* data/waiting_room: file name -> content
    ticker_room,       \* data/ticker_room: file name -> content
    csv_files,         \* top_monde_ranking: the glob result
    next_file,         \* top_monde_ranking: position of the loop in csv_files
    processed_count,   \* top_monde_ranking: its counter
    result,            \* how the last call of top_monde_ranking ended
    runs,              \* number of calls of top_monde_ranking so far
    ticker_room0,      \* ticker_room when the current call began
    skipped,           \* files the current call skipped as already enhanced
    attempted,         \* files the current call passed to _process_single_file
    succeeded,         \* files for which _process_single_file returned True
    files_read,        \* files the current call opened with read_csv
    previous,          \* <<found, count>> of the call before the current one
    data_dir,          \* data: list file name -> content
    latest_file,       \* create_ticker_lists: the file it reads
    df_filtered,       \* create_ticker_lists: the rows that pass the capitalization filter
    top_30,            \* create_ticker_lists: its local DataFrames ...
    top_50_global,
    df_score_filtered,
    worst_100,
    top_30_list,       \* ... and its local lists of tokens
    top_50_global_list,
    unified_ticker_list,
    score_27_list,
    worst_100_list,
    success,           \* what create_ticker_lists returned
    error,             \* the exception create_ticker_lists caught
    data_dir0,         \* data when the current call of create_ticker_lists began
    calls,             \* number of calls of create_ticker_lists so far
    ready_to_use,      \* data/ready_to_use: file name -> content
    used_input_files,  \* data/used_input_files: file name -> content
    pending,           \* cleanup_files: files of the current glob result not yet visited
    dirs0              \* the four directories when cleanup_files was called

tvars == <<df, df0, out1>>
cvars == <<required_columns, missing_columns>>
bvars == <<waiting_room, ticker_room, csv_files, next_file, processed_count, result,
           runs, ticker_room0, skipped, attempted, succeeded, files_read, previous>>
fvars == <<df_filtered, top_30, top_50_global, df_score_filtered, worst_100>>
lvars == <<top_30_list, top_50_global_list, unified_ticker_list, score_27_list,
           worst_100_list>>
ovars == <<data_dir, latest_file, success, error, data_dir0, calls>>
kvars == <<ready_to_use, used_input_files, pending, dirs0>>
vars == <<tvars, pc, cvars, bvars, fvars, lvars, ovars, kvars>>

(***************************************************************************)
(* float64 cells                                                           *)
(***************************************************************************)
RECURSIVE GCD(_, _)
GCD(a, b) == IF b = 0 THEN a ELSE GCD(b, a % b)

Abs(x) == IF x < 0 THEN -x ELSE x

NaN == [t |-> "nan", n |-> 0, d |-> 1]
Inf == [t |-> "inf", n |-> 1, d |-> 1]
NInf == [t |-> "inf", n |-> -1, d |-> 1]

\* the rational n/d (d > 0) in lowest terms
Num(n, d) ==
    LET g == GCD(Abs(n), d)
    IN  [t |-> "num", n |-> n \div g, d |-> d \div g]

Int2Num(i) == Num(i, 1)

IsNaN(a) == a.t = "nan"
IsInf(a) == a.t = "inf"
IsNum(a) == a.t = "num"

\* IEEE addition
Add(a, b) ==
    IF IsNaN(a) \/ IsNaN(b) THEN NaN
    ELSE IF IsInf(a) /\ IsInf(b) THEN (IF a.n = b.n THEN a ELSE NaN)
    ELSE IF IsInf(a) THEN a
    ELSE IF IsInf(b) THEN b
    ELSE Num(a.n * b.d + b.n * a.d, a.d * b.d)

Sign(x) == IF x > 0 THEN 1 ELSE IF x < 0 THEN -1 ELSE 0

\* IEEE division: x/0 is +-inf for x # 0 and NaN for x = 0
Div(a, b) ==
    IF IsNaN(a) \/ IsNaN(b) THEN NaN
    ELSE IF IsInf(a) /\ IsInf(b) THEN NaN
    ELSE IF IsInf(a) THEN (IF Sign(b.n) < 0 THEN [a EXCEPT !.n = -a.n] ELSE a)
    ELSE IF IsInf(b) THEN Int2Num(0)
    ELSE IF b.n = 0 THEN (IF a.n = 0 THEN NaN
                          ELSE IF a.n > 0 THEN Inf ELSE NInf)
    ELSE Num(Sign(b.n) * a.n * b.d, Abs(b.n) * a.d)

\* a < b on non-NaN cells
Less(a, b) ==
    IF IsInf(a) THEN a.n < 0 /\ ~(IsInf(b) /\ b.n < 0)
    ELSE IF IsInf(b) THEN b.n > 0
    ELSE a.n * b.d < b.n * a.d

\* numpy round(2): nearest multiple of 1/100, ties to even; specials unchanged
Round2(a) ==
    IF ~IsNum(a) THEN a
    ELSE LET q == a.n \div a.d
             r == a.n % a.d
             f == q * 100 + ((r * 100) \div a.d)
             rem == (r * 100) % a.d
             up == \/ 2 * rem > a.d
                   \/ (2 * rem = a.d /\ f % 2 = 1)
         IN  Num(IF up THEN f + 1 ELSE f, 100)

\* fillna(0) on one cell
FillNa0(a) == IF IsNaN(a) THEN Int2Num(0) ELSE a

\* sum(axis=1) over a list of cells: skipna=True, empty sum is 0
RECURSIVE SumSkipNa(_)
SumSkipNa(cells) ==
    IF cells = <<>> THEN Int2Num(0)
    ELSE IF IsNaN(Head(cells)) THEN SumSkipNa(Tail(cells))
    ELSE Add(Head(cells), SumSkipNa(Tail(cells)))

(***************************************************************************)
(* DataFrames: a set of column names and a sequence of rows; a row keeps   *)
(* its index label idx through every reordering.                           *)
(***************************************************************************)
Str == [t |-> "str", n |-> 0, d |-> 1]

P1Y == "Performance % 1 year"
P6M == "Performance % 6 months"
P3M == "Performance % 3 months"
P1M == "Performance % 1 month"
SMA21 == "Simple Moving Average (21) 1 day"
SMA200 == "Simple Moving Average (200) 1 day"
PRICE == "Price"

perf_columns == <<P1Y, P6M, P3M>>
perf_columns_2 == <<P1M, P3M, P6M>>

calculated_columns ==
    <<"perf_sum", "perf_norm", "perfsum_2", "perf_norm_2",
      "MRAT", "Diff", "score", "score_2">>

Range(s) == {s[i] : i \in 1..Len(s)}

\* df[c] = values: column assignment (adding c when absent), values[i]
\* being the value for the i-th row
SetCol(frame, c, values) ==
    [columns |-> frame.columns \cup {c},
     rows |-> [i \in 1..Len(frame.rows) |->
        [idx |-> frame.rows[i].idx,
         cells |-> [k \in frame.columns \cup {c} |->
                      IF k = c THEN values[i] ELSE frame.rows[i].cells[k]]]]]

\* the cells of the listed columns of one row, in list order
Pick(cells, cols) == [i \in 1..Len(cols) |-> cells[cols[i]]]

\* df[cols].sum(axis=1)
RowSums(frame, cols) ==
    [i \in 1..Len(frame.rows) |-> SumSkipNa(Pick(frame.rows[i].cells, cols))]

\* 1 + df[c] / 1000
OnePlusPerMille(frame, c) ==
    [i \in 1..Len(frame.rows) |->
        Add(Int2Num(1), Div(frame.rows[i].cells[c], Int2Num(1000)))]

\* df[a] / df[b]
Ratio(frame, a, b) ==
    [i \in 1..Len(frame.rows) |-> Div(frame.rows[i].cells[a], frame.rows[i].cells[b])]

\* df[a] + df[b]
Plus(frame, a, b) ==
    [i \in 1..Len(frame.rows) |-> Add(frame.rows[i].cells[a], frame.rows[i].cells[b])]

CalculatePerformanceColumnsWrongTriple(frame) ==
    LET d1 == SetCol(frame, "perf_sum", RowSums(frame, perf_columns_2))
        d2 == SetCol(d1, "perf_norm", OnePlusPerMille(d1, "perf_sum"))
        d3 == SetCol(d2, "perfsum_2", RowSums(d2, perf_columns_2))
    IN  SetCol(d3, "perf_norm_2", OnePlusPerMille(d3, "perfsum_2"))

CalculatePerformanceColumnsAccumulate(frame) ==
    LET d0 == IF "perf_sum" \in frame.columns THEN frame
              ELSE SetCol(frame, "perf_sum", [i \in 1..Len(frame.rows) |-> Int2Num(0)])
        d1 == SetCol(d0, "perf_sum",
                     [i \in 1..Len(d0.rows) |->
                        Add(d0.rows[i].cells["perf_sum"], RowSums(d0, perf_columns)[i])])
        d2 == SetCol(d1, "perf_norm", OnePlusPerMille(d1, "perf_sum"))
        d3 == SetCol(d2, "perfsum_2", RowSums(d2, perf_columns_2))
    IN  SetCol(d3, "perf_norm_2", OnePlusPerMille(d3, "perfsum_2"))

\* _calculate_performance_columns
CalculatePerformanceColumns(frame) ==
    LET d1 == SetCol(frame, "perf_sum", RowSums(frame, perf_columns))
        d2 == SetCol(d1, "perf_norm", OnePlusPerMille(d1, "perf_sum"))
        d3 == SetCol(d2, "perfsum_2", RowSums(d2, perf_columns_2))
    IN  SetCol(d3, "perf_norm_2", OnePlusPerMille(d3, "perfsum_2"))

\* _calculate_technical_indicators
CalculateTechnicalIndicators(frame) ==
    LET d1 == SetCol(frame, "MRAT", Ratio(frame, SMA21, SMA200))
    IN  SetCol(d1, "Diff", Ratio(d1, PRICE, SMA200))

CalculateScoresSameNorm(frame) ==
    LET d1 == SetCol(frame, "score", Plus(frame, "perf_norm", "MRAT"))
    IN  SetCol(d1, "score_2", Plus(d1, "perf_norm", "MRAT"))

\* _calculate_scores
CalculateScores(frame) ==
    LET d1 == SetCol(frame, "score", Plus(frame, "perf_norm", "MRAT"))
    IN  SetCol(d1, "score_2", Plus(d1, "perf_norm_2", "MRAT"))

\* df[calculated_columns] = df[calculated_columns].fillna(0)
FillNaCalculated(frame) ==
    [frame EXCEPT !.rows = [i \in 1..Len(frame.rows) |->
        [frame.rows[i] EXCEPT !.cells = [k \in frame.columns |->
            IF k \in Range(calculated_columns)
            THEN FillNa0(frame.rows[i].cells[k])
            ELSE frame.rows[i].cells[k]]]]]

\* a column is selected by select_dtypes(include=[np.number]) when it holds no string
IsNumericColumn(frame, c) ==
    \A i \in 1..Len(frame.rows) : frame.rows[i].cells[c].t \notin {"str", "text"}

RoundNumericNever(frame) == frame

\* df[numeric_columns] = df[numeric_columns].round(2)
RoundNumeric(frame) ==
    [frame EXCEPT !.rows = [i \in 1..Len(frame.rows) |->
        [frame.rows[i] EXCEPT !.cells = [k \in frame.columns |->
            IF IsNumericColumn(frame, k)
            THEN Round2(frame.rows[i].cells[k])
            ELSE frame.rows[i].cells[k]]]]]

IndexPermutations(n) == {p \in [1..n -> 1..n] : \A i, j \in 1..n : i # j => p[i] # p[j]}

\* sort_values(by="score", ascending=False) with the default kind="quicksort":
\* any arrangement of the rows with non-increasing score (NaN last); numpy's
\* quicksort gives no guarantee on the order of rows with equal keys
SortValuesByScore(frame) ==
    LET n == Len(frame.rows)
        Sc(r) == r.cells["score"]
        Ordered(rs) == \A i, j \in 1..n : i < j =>
                          /\ ~(IsNaN(Sc(rs[i])) /\ ~IsNaN(Sc(rs[j])))
                          /\ (~IsNaN(Sc(rs[i])) /\ ~IsNaN(Sc(rs[j]))
                                => ~Less(Sc(rs[i]), Sc(rs[j])))
    IN  {[frame EXCEPT !.rows = rs] :
            rs \in {q \in {[i \in 1..n |-> frame.rows[p[i]]] : p \in IndexPermutations(n)} :
                      Ordered(q)}}

\* _process_dataframe: the set of results the sort may return
ProcessDataframe(frame) ==
    SortValuesByScore(
        RoundNumeric(
            FillNaCalculated(
                CalculateScores(
                    CalculateTechnicalIndicators(
                        CalculatePerformanceColumns(frame))))))

\* the exception _process_dataframe raises on frame, "none" when it returns:
\* a missing input column is a KeyError, arithmetic on a string cell a TypeError
InputColumns == {P1Y, P6M, P3M, P1M, SMA21, SMA200, PRICE}

ProcessDataframeError(frame) ==
    IF ~(InputColumns \subseteq frame.columns) THEN "KeyError"
    ELSE IF \E c \in InputColumns : ~IsNumericColumn(frame, c) THEN "TypeError"
    ELSE "none"

(***************************************************************************)
(* The scoring transform, step by step, on every DataFrame of at most      *)
(* MaxRows rows drawn from RowPool, then a second time on its own output.  *)
(***************************************************************************)
P1YValues == {Int2Num(25), Int2Num(-10), NaN}
SMA21Values == {Int2Num(148), Int2Num(0), NaN, Num(14, 1000)}
SMA200Values == {Int2Num(140), Int2Num(0), NaN, Num(6, 1000)}

\* one row of a raw snapshot
InputRow(p1y, sma21, sma200) ==
    (P1Y :> p1y) @@ (P6M :> Int2Num(12)) @@ (P3M :> Int2Num(5)) @@ (P1M :> Int2Num(2))
        @@ (SMA21 :> sma21) @@ (SMA200 :> sma200) @@ (PRICE :> Int2Num(150))

\* the sample row with its 1-year performance varied, and with its two
\* moving averages varied
RowPool ==
    {InputRow(a, Int2Num(148), Int2Num(140)) : a \in P1YValues}
        \cup {InputRow(Int2Num(25), b, c) : b \in SMA21Values, c \in SMA200Values}

\* pd.DataFrame / read_csv: rows labelled 0, 1, 2, ... in file order
MakeDataFrame(cols, cellrows) ==
    [columns |-> cols,
     rows |-> [i \in 1..Len(cellrows) |-> [idx |-> i - 1, cells |-> cellrows[i]]]]

NoFrame == [columns |-> {}, rows |-> <<>>]

\* cleanup_files never called, its two directories empty
NoCleanup ==
    /\ ready_to_use = <<>>
    /\ used_input_files = <<>>
    /\ pending = {}
    /\ dirs0 = <<>>

\* create_ticker_lists never called, no list file in data
NoCuration ==
    /\ data_dir = <<>>
    /\ data_dir0 = <<>>
    /\ calls = 0
    /\ latest_file = <<>>
    /\ df_filtered = NoFrame
    /\ top_30 = NoFrame
    /\ top_50_global = NoFrame
    /\ df_score_filtered = NoFrame
    /\ worst_100 = NoFrame
    /\ top_30_list = <<>>
    /\ top_50_global_list = <<>>
    /\ unified_ticker_list = <<>>
    /\ score_27_list = <<>>
    /\ worst_100_list = <<>>
    /\ success = "none"
    /\ error = "none"

\* empty directories, top_monde_ranking never called
NoBatch ==
    /\ waiting_room = <<>>
    /\ ticker_room = <<>>
    /\ csv_files = <<>>
    /\ next_file = 1
    /\ processed_count = 0
    /\ result = "none"
    /\ runs = 0
    /\ ticker_room0 = <<>>
    /\ skipped = {}
    /\ attempted = {}
    /\ succeeded = {}
    /\ files_read = {}
    /\ previous = <<>>

InitTransform ==
    /\ \E n \in 0..MaxRows : \E rs \in [1..n -> RowPool] :
          df = MakeDataFrame(InputColumns, rs)
    /\ df0 = df
    /\ out1 = NoFrame
    /\ pc = "start"
    /\ required_columns = <<>>
    /\ missing_columns = <<>>
    /\ NoBatch
    /\ NoCuration
    /\ NoCleanup

PerformanceStep ==
    /\ pc = "start"
    /\ df' = CalculatePerformanceColumns(df)
    /\ pc' = "perf"
    /\ UNCHANGED <<df0, out1, cvars, bvars, fvars, lvars, ovars>>
    /\ UNCHANGED kvars

TechnicalStep ==
    /\ pc = "perf"
    /\ df' = CalculateTechnicalIndicators(df)
    /\ pc' = "tech"
    /\ UNCHANGED <<df0, out1, cvars, bvars, fvars, lvars, ovars>>
    /\ UNCHANGED kvars

ScoresStep ==
    /\ pc = "tech"
    /\ df' = CalculateScores(df)
    /\ pc' = "scores"
    /\ UNCHANGED <<df0, out1, cvars, bvars, fvars, lvars, ovars>>
    /\ UNCHANGED kvars

FillNaStep ==
    /\ pc = "scores"
    /\ df' = FillNaCalculated(df)
    /\ pc' = "filled"
    /\ UNCHANGED <<df0, out1, cvars, bvars, fvars, lvars, ovars>>
    /\ UNCHANGED kvars

RoundStep ==
    /\ pc = "filled"
    /\ df' = RoundNumeric(df)
    /\ pc' = "rounded"
    /\ UNCHANGED <<df0, out1, cvars, bvars, fvars, lvars, ovars>>
    /\ UNCHANGED kvars

SortStep ==
    /\ pc = "rounded"
    /\ df' \in SortValuesByScore(df)
    /\ pc' = "sorted"
    /\ UNCHANGED <<df0, out1, cvars, bvars, fvars, lvars, ovars>>
    /\ UNCHANGED kvars

\* _process_dataframe applied to its own output
Reprocess ==
    /\ pc = "sorted"
    /\ out1' = df
    /\ df' \in ProcessDataframe(df)
    /\ pc' = "again"
    /\ UNCHANGED <<df0, cvars, bvars, fvars, lvars, ovars>>
    /\ UNCHANGED kvars

NextTransform ==
    \/ PerformanceStep
    \/ TechnicalStep
    \/ ScoresStep
    \/ FillNaStep
    \/ RoundStep
    \/ SortStep
    \/ Reprocess

SpecTransform == InitTransform /\ [][NextTransform]_vars

(***************************************************************************)
(* Claims about the scoring transform (checked under SpecTransform).       *)
(***************************************************************************)
RowAt(frame, i) == CHOOSE r \in Range(frame.rows) : r.idx = i
Indexes(frame) == {r.idx : r \in Range(frame.rows)}
Cells(frame) == {r.cells : r \in Range(frame.rows)}
BeforeRounding == pc \in {"perf", "tech", "scores", "filled"}

\* a/1000 + 1 for a finite a, written out
OnePlusThousandth(a) == Num(1000 * a.d + a.n, 1000 * a.d)

\* C1: in every row whose 1-year, 6-month and 3-month performances are all
\* present, perf_sum is exactly their sum and perf_norm is 1 + perf_sum/1000,
\* from _calculate_performance_columns on until the rounding.
C1_PerfSumAndNorm ==
    BeforeRounding =>
        \A r \in Cells(df) :
            (IsNum(r[P1Y]) /\ IsNum(r[P6M]) /\ IsNum(r[P3M])) =>
                /\ r["perf_sum"] =
                     Num(r[P1Y].n * r[P6M].d * r[P3M].d
                           + r[P6M].n * r[P1Y].d * r[P3M].d
                           + r[P3M].n * r[P1Y].d * r[P6M].d,
                         r[P1Y].d * r[P6M].d * r[P3M].d)
                /\ r["perf_norm"] = OnePlusThousandth(r["perf_sum"])

C1_Witness ==
    /\ pc = "perf"
    /\ \E r \in Cells(df) :
          /\ IsNum(r[P1Y]) /\ r[P1Y].n < 0
          /\ r["perf_sum"] = Int2Num(7)
          /\ r["perf_norm"] = Num(1007, 1000)

\* C2: in every row with a non-zero 200-period average, right after
\* _calculate_scores, MRAT is SMA21 / SMA200 (undefined when SMA21 is missing),
\* perf_norm_2 is 1 + (1 month + 3 months + 6 months)/1000, score is
\* perf_norm + MRAT and score_2 is perf_norm_2 + MRAT.
C2_ScoreFormulas ==
    pc = "scores" =>
        \A r \in Cells(df) :
            (IsNum(r[SMA200]) /\ r[SMA200].n # 0) =>
                LET m == r["MRAT"]
                    pn == r["perf_norm"]
                    pn2 == r["perf_norm_2"]
                    s2 == Num(r[P1M].n * r[P3M].d * r[P6M].d
                                + r[P3M].n * r[P1M].d * r[P6M].d
                                + r[P6M].n * r[P1M].d * r[P3M].d,
                              r[P1M].d * r[P3M].d * r[P6M].d)
                IN  /\ IsNum(r[SMA21]) =>
                          m = Num(r[SMA21].n * r[SMA200].d, r[SMA21].d * r[SMA200].n)
                    /\ IsNaN(r[SMA21]) =>
                          IsNaN(m) /\ IsNaN(r["score"]) /\ IsNaN(r["score_2"])
                    /\ pn2 = OnePlusThousandth(s2)
                    /\ IsNum(m) =>
                          /\ r["score"] = Num(pn.n * m.d + m.n * pn.d, pn.d * m.d)
                          /\ r["score_2"] = Num(pn2.n * m.d + m.n * pn2.d, pn2.d * m.d)

C2_Witness ==
    /\ pc = "scores"
    /\ \E r \in Cells(df) :
          /\ r[SMA200] = Int2Num(140) /\ r[SMA21] = Int2Num(148) /\ r[P1Y] = Int2Num(25)
          /\ r["MRAT"] = Num(37, 35)
          /\ r["score"] # r["score_2"]

\* C3 (as stated): after _process_dataframe every derived cell is a finite
\* number, and it is 0 in a row whose 200-period average is zero or missing
\* or whose 21-period average is missing.
C3_DerivedFiniteZeroWhenUndefined ==
    pc \in {"sorted", "again"} =>
        \A r \in Cells(df) :
            /\ \A c \in Range(calculated_columns) : IsNum(r[c])
            /\ (r[SMA200] = Int2Num(0) \/ IsNaN(r[SMA200]) \/ IsNaN(r[SMA21])) =>
                  \A c \in {"MRAT", "score", "score_2"} : r[c] = Int2Num(0)

\* C4 (as stated): the output of _process_dataframe is in non-increasing
\* score order and rows of equal score keep their input order.
C4_SortedDescendingStable ==
    pc = "sorted" =>
        \A i, j \in 1..Len(df.rows) : i < j =>
            /\ ~Less(df.rows[i].cells["score"], df.rows[j].cells["score"])
            /\ df.rows[i].cells["score"] = df.rows[j].cells["score"]
                  => df.rows[i].idx < df.rows[j].idx

\* every numeric input cell has at most two decimals
TwoDecimalInputs(frame) ==
    \A r \in Cells(frame) : \A c \in InputColumns : IsNum(r[c]) => 100 % r[c].d = 0

SameDerivedValues(f, g) ==
    /\ Indexes(f) = Indexes(g)
    /\ \A i \in Indexes(f) : \A c \in Range(calculated_columns) :
          RowAt(f, i).cells[c] = RowAt(g, i).cells[c]

\* C10 (as stated): for every input x the derived values of every row of
\* T(T(x)) equal those of the same row of T(x).
C10_FixedPointAnyInput ==
    pc = "again" => SameDerivedValues(df, out1)

\* C10 (amended): the same, for inputs whose numeric input columns carry at
\* most two decimals.
C10_FixedPointTwoDecimalInputs ==
    (pc = "again" /\ TwoDecimalInputs(df0)) => SameDerivedValues(df, out1)

C10_Witness ==
    /\ pc = "again"
    /\ TwoDecimalInputs(df0)
    /\ Len(df.rows) = 2
    /\ \E r \in Cells(df) : r["MRAT"] = Num(106, 100) /\ r["score"] = Num(210, 100)
    /\ \E r \in Cells(df) : IsInf(r["MRAT"])

(***************************************************************************)
(* The column check: the names of a required list that a dataset lacks.    *)
(***************************************************************************)
MissingColumnsPresent(required, columns) ==
    SelectSeq(required, LAMBDA col : col \in columns)

\* [col for col in required_columns if col not in df.columns]
MissingColumns(required, columns) ==
    SelectSeq(required, LAMBDA col : col \notin columns)

\* required_columns of create_ticker_lists
CuratorRequiredColumns == <<"Symbol", "Exchange", "Market capitalization", "score">>

RequiredInputColumnsScoringOnly == <<P1Y, P6M, P3M, P1M, SMA21, SMA200, PRICE>>

\* the required columns of a raw scoring input
RequiredInputColumns ==
    <<"Symbol", "Exchange", PRICE, "Market capitalization", P1M, P3M, P6M, P1Y,
      SMA21, SMA200>>

\* validate_input_dataframe(df)
ValidateInputDataframe(frame) == MissingColumns(RequiredInputColumns, frame.columns)

ColumnUniverse == Range(CuratorRequiredColumns) \cup InputColumns
ListNames == {"Symbol", "Exchange", "score"}
RequiredLists ==
    {CuratorRequiredColumns}
        \cup UNION {[1..n -> ListNames] : n \in 0..MaxRequired}

InitValidate ==
    /\ \E cols \in SUBSET ColumnUniverse : df = MakeDataFrame(cols, <<>>)
    /\ df0 = df
    /\ out1 = NoFrame
    /\ pc = "start"
    /\ required_columns = <<>>
    /\ missing_columns = <<>>
    /\ NoBatch
    /\ NoCuration
    /\ NoCleanup

\* the column check of create_ticker_lists, for any required list
CheckColumns ==
    /\ pc = "start"
    /\ \E req \in RequiredLists :
          /\ required_columns' = req
          /\ missing_columns' = MissingColumns(req, df.columns)
    /\ pc' = "checked"
    /\ UNCHANGED <<df, df0, out1, bvars, fvars, lvars, ovars>>
    /\ UNCHANGED kvars

\* validate_input_dataframe on a raw scoring input
ValidateInput ==
    /\ pc = "start"
    /\ required_columns' = RequiredInputColumns
    /\ missing_columns' = ValidateInputDataframe(df)
    /\ pc' = "validated"
    /\ UNCHANGED <<df, df0, out1, bvars, fvars, lvars, ovars>>
    /\ UNCHANGED kvars

NextValidate == CheckColumns \/ ValidateInput

SpecValidate == InitValidate /\ [][NextValidate]_vars

\* the positions of required_columns whose name the dataset lacks
AbsentPositions ==
    {i \in 1..Len(required_columns) : required_columns[i] \notin df0.columns}

\* C5: the check returns exactly the required names the dataset lacks, in the
\* order of the required list; the result is empty exactly when every
\* required column is present; the dataset is left as it was.
C5_MissingSubsetInOrder ==
    pc \in {"checked", "validated"} =>
        /\ Len(missing_columns) = Cardinality(AbsentPositions)
        /\ \A k \in 1..Len(missing_columns) :
              \E i \in AbsentPositions :
                 /\ Cardinality({j \in AbsentPositions : j <= i}) = k
                 /\ missing_columns[k] = required_columns[i]
        /\ (missing_columns = <<>>) <=> (Range(required_columns) \subseteq df0.columns)
        /\ df = df0

C5_Witness ==
    /\ pc = "checked"
    /\ required_columns = <<"score", "Symbol", "Exchange">>
    /\ df.columns = {"Symbol", PRICE}
    /\ missing_columns = <<"score", "Exchange">>

RECURSIVE EnhancedName(_)
EnhancedName(filename) ==
    IF filename = <<>> THEN <<>>
    ELSE IF Head(filename) = ".csv"
         THEN <<"_enhanced", ".csv">> \o EnhancedName(Tail(filename))
         ELSE <<Head(filename)>> \o EnhancedName(Tail(filename))

\* glob pattern "TOP MONDE*.csv"
MatchesTopMonde(filename) ==
    /\ Len(filename) >= 2
    /\ filename[1] = "TOP MONDE"
    /\ filename[Len(filename)] = ".csv"

NamePool ==
    {<<"TOP MONDE", "_2024-01-01", ".csv">>,
     <<"TOP MONDE", "_2024-01-02", ".csv">>,
     <<"TOP MONDE", "_2024-01-03", ".csv">>,
     <<"SP500", "_2024-01-01", ".csv">>}

SampleRow ==
    (P1Y :> Int2Num(25)) @@ (P6M :> Int2Num(12)) @@ (P3M :> Int2Num(5))
        @@ (P1M :> Int2Num(2)) @@ (SMA21 :> Int2Num(148)) @@ (SMA200 :> Int2Num(140))
        @@ (PRICE :> Int2Num(150))

\* what a file of waiting_room may hold
GoodFile == [readable |-> TRUE, columns |-> InputColumns, cellrows |-> <<SampleRow>>]
MissingColumnFile ==
    [readable |-> TRUE, columns |-> InputColumns \ {SMA200},
     cellrows |-> <<[c \in InputColumns \ {SMA200} |-> SampleRow[c]]>>]
NonNumericFile ==
    [readable |-> TRUE, columns |-> InputColumns,
     cellrows |-> <<[SampleRow EXCEPT ![PRICE] = Str]>>]
UnreadableFile == [readable |-> FALSE, columns |-> {}, cellrows |-> <<>>]

FileContents == {GoodFile, MissingColumnFile, NonNumericFile, UnreadableFile}

\* an artifact some earlier call left in ticker_room
OldArtifact == [kind |-> "full", columns |-> {}, cellrows |-> <<>>]

\* pd.read_csv
ReadCsv(content) == MakeDataFrame(content.columns, content.cellrows)

\* df.to_csv(output_file, index=False): the index labels are not written
ToCsv(frame) ==
    [kind |-> "full", columns |-> frame.columns,
     cellrows |-> [i \in 1..Len(frame.rows) |-> frame.rows[i].cells]]

PartialArtifact == [kind |-> "partial", columns |-> {}, cellrows |-> <<>>]
NoArtifact == [kind |-> "none", columns |-> {}, cellrows |-> <<>>]

\* the body of the try block of _process_single_file: each way it can end,
\* as the exception raised ("none" when it reaches return True) and the
\* artifact left at the output path (NoArtifact when nothing was created)
SingleFileOutcomes(content) ==
    IF ~content.readable
    THEN {[exc |-> "ParserError", artifact |-> NoArtifact]}
    ELSE IF ProcessDataframeError(ReadCsv(content)) # "none"
    THEN {[exc |-> ProcessDataframeError(ReadCsv(content)), artifact |-> NoArtifact]}
    ELSE {[exc |-> "none", artifact |-> ToCsv(f)] : f \in ProcessDataframe(ReadCsv(content))}
            \cup {[exc |-> "OSError", artifact |-> NoArtifact],
                  [exc |-> "OSError", artifact |-> PartialArtifact]}

CaughtValueErrorOnly(exc) == exc \in {"ValueError", "ParserError"}

\* except Exception: every error of the try block is an Exception
Caught(exc) == exc \in {"KeyError", "TypeError", "ValueError", "ParserError", "OSError"}

OutputExistsNever(room, output_file) == FALSE

\* os.path.exists(output_file)
OutputExists(room, output_file) == output_file \in DOMAIN room

ReturnValueNonNegative(count) == count >= 0

\* return processed_count > 0
ReturnValue(count) == count > 0

BoolName(b) == IF b THEN "True" ELSE "False"

SeqsOver(S) == {q \in [1..Cardinality(S) -> S] : Range(q) = S}

InitBatch ==
    /\ df = NoFrame /\ df0 = NoFrame /\ out1 = NoFrame
    /\ required_columns = <<>> /\ missing_columns = <<>>
    /\ pc = "idle"
    /\ \E names \in SUBSET NamePool :
          /\ Cardinality(names) <= MaxFiles
          /\ waiting_room \in [names -> FileContents]
    /\ \E old \in SUBSET {EnhancedName(f) : f \in NamePool} :
          ticker_room = [o \in old |-> OldArtifact]
    /\ csv_files = <<>>
    /\ next_file = 1
    /\ processed_count = 0
    /\ result = "none"
    /\ runs = 0
    /\ ticker_room0 = ticker_room
    /\ skipped = {}
    /\ attempted = {}
    /\ succeeded = {}
    /\ files_read = {}
    /\ previous = <<>>
    /\ NoCuration
    /\ NoCleanup

\* top_monde_ranking is called: glob, and return False when nothing matches
Glob ==
    /\ pc \in {"idle", "done"}
    /\ result # "raised"
    /\ runs < MaxRuns
    /\ runs' = runs + 1
    /\ previous' = IF runs = 0 THEN <<>> ELSE <<Len(csv_files), processed_count>>
    /\ csv_files' \in SeqsOver({f \in DOMAIN waiting_room : MatchesTopMonde(f)})
    /\ processed_count' = 0
    /\ next_file' = 1
    /\ ticker_room0' = ticker_room
    /\ skipped' = {} /\ attempted' = {} /\ succeeded' = {} /\ files_read' = {}
    /\ IF csv_files' = <<>>
       THEN pc' = "done" /\ result' = "False"
       ELSE pc' = "loop" /\ result' = "none"
    /\ UNCHANGED <<tvars, cvars, fvars, lvars, ovars, waiting_room, ticker_room>>
    /\ UNCHANGED kvars

\* one iteration of the loop whose output file already exists
SkipExisting ==
    /\ pc = "loop"
    /\ next_file <= Len(csv_files)
    /\ OutputExists(ticker_room, EnhancedName(csv_files[next_file]))
    /\ processed_count' = processed_count + 1
    /\ skipped' = skipped \cup {csv_files[next_file]}
    /\ next_file' = next_file + 1
    /\ UNCHANGED <<tvars, pc, cvars, fvars, lvars, ovars, waiting_room, ticker_room, csv_files, result, runs,
                   ticker_room0, attempted, succeeded, files_read, previous>>
    /\ UNCHANGED kvars

\* one iteration of the loop that calls _process_single_file
ProcessSingleFile ==
    /\ pc = "loop"
    /\ next_file <= Len(csv_files)
    /\ ~OutputExists(ticker_room, EnhancedName(csv_files[next_file]))
    /\ LET input_file == csv_files[next_file]
           output_file == EnhancedName(input_file)
       IN  \E o \in SingleFileOutcomes(waiting_room[input_file]) :
              /\ attempted' = attempted \cup {input_file}
              /\ files_read' = files_read \cup {input_file}
              /\ ticker_room' =
                    IF o.artifact = NoArtifact THEN ticker_room
                    ELSE [n \in DOMAIN ticker_room \cup {output_file} |->
                            IF n = output_file THEN o.artifact ELSE ticker_room[n]]
              /\ IF o.exc = "none"
                 THEN /\ succeeded' = succeeded \cup {input_file}
                      /\ processed_count' = processed_count + 1
                      /\ next_file' = next_file + 1
                      /\ UNCHANGED <<pc, result>>
                 ELSE IF Caught(o.exc)
                 THEN /\ next_file' = next_file + 1
                      /\ UNCHANGED <<pc, result, succeeded, processed_count>>
                 ELSE /\ pc' = "done"
                      /\ result' = "raised"
                      /\ UNCHANGED <<next_file, succeeded, processed_count>>
    /\ UNCHANGED <<tvars, cvars, fvars, lvars, ovars, waiting_room, csv_files, runs, ticker_room0, skipped,
                   previous>>
    /\ UNCHANGED kvars

\* the loop is over: return processed_count > 0
Return ==
    /\ pc = "loop"
    /\ next_file > Len(csv_files)
    /\ result' = BoolName(ReturnValue(processed_count))
    /\ pc' = "done"
    /\ UNCHANGED <<tvars, cvars, fvars, lvars, ovars, waiting_room, ticker_room, csv_files, next_file,
                   processed_count, runs, ticker_room0, skipped, attempted, succeeded,
                   files_read, previous>>
    /\ UNCHANGED kvars

Next ==
    \/ Glob
    \/ SkipExisting
    \/ ProcessSingleFile
    \/ Return

Spec == InitBatch /\ [][Next]_vars

(***************************************************************************)
(* Claims about top_monde_ranking (checked under Spec).                    *)
(***************************************************************************)
InRun == pc \in {"loop", "done"} /\ runs > 0
Visited == {csv_files[k] : k \in 1..(next_file - 1)}
HadArtifact(f) == EnhancedName(f) \in DOMAIN ticker_room0

\* C7: a found file whose enhanced artifact exists when the call begins is
\* never read nor passed to _process_single_file, its artifact stays as it
\* was, and once the loop has passed it, it has been counted; a call that
\* follows a call in which every found file was counted changes nothing in
\* ticker_room, reads nothing and ends with the same count.
C7_ExistingArtifactSkipped ==
    InRun =>
        /\ \A f \in Range(csv_files) : HadArtifact(f) =>
              /\ f \notin files_read
              /\ f \notin attempted
              /\ EnhancedName(f) \in DOMAIN ticker_room
              /\ ticker_room[EnhancedName(f)] = ticker_room0[EnhancedName(f)]
              /\ f \in Visited => f \in skipped
        /\ processed_count >= Cardinality(skipped)
        /\ (pc = "done" /\ previous # <<>> /\ previous[1] = previous[2]) =>
              /\ ticker_room = ticker_room0
              /\ files_read = {}
              /\ processed_count = previous[2]

C7_Witness ==
    /\ pc = "done"
    /\ runs = 2
    /\ previous = <<2, 2>>
    /\ Cardinality(skipped) = 2
    /\ processed_count = 2
    /\ \E o \in DOMAIN ticker_room : ticker_room[o].cellrows # <<>>

\* C8: a failure inside _process_single_file never ends the loop:
\* top_monde_ranking does not raise, and when it has returned every found
\* file was either skipped or passed to _process_single_file.
C8_FailureIsolated ==
    /\ result # "raised"
    /\ (pc = "done" /\ runs > 0) => Range(csv_files) = attempted \cup skipped

C8_Witness ==
    /\ pc = "done"
    /\ Len(csv_files) = 2
    /\ csv_files[1] \in attempted \ succeeded
    /\ waiting_room[csv_files[1]] = MissingColumnFile
    /\ csv_files[2] \in succeeded

\* C9 (as stated): the call returns True exactly when some file was processed
\* successfully during the call, the count is the number of such files, it
\* lies between 0 and the number of files found, and with no matching file
\* the call returns False.
C9_TrueIffProcessedInRun ==
    (pc = "done" /\ runs > 0) =>
        /\ (result = "True") <=> (succeeded # {})
        /\ processed_count = Cardinality(succeeded)
        /\ 0 <= processed_count /\ processed_count <= Len(csv_files)
        /\ csv_files = <<>> => result = "False"

\* C9 (amended): the same, counting also the files skipped because their
\* enhanced artifact already existed.
C9_TrueIffProcessedOrSkipped ==
    (pc = "done" /\ runs > 0) =>
        /\ result \in {"True", "False"}
        /\ (result = "True") <=> (succeeded \cup skipped # {})
        /\ processed_count = Cardinality(succeeded \cup skipped)
        /\ 0 <= processed_count /\ processed_count <= Len(csv_files)
        /\ csv_files = <<>> => result = "False"

C9_Witness ==
    /\ pc = "done"
    /\ Len(csv_files) = 2
    /\ Cardinality(succeeded) = 1
    /\ Cardinality(attempted) = 2
    /\ processed_count = 1
    /\ result = "True"

(***************************************************************************)
(* create_ticker_lists: the lists of market:symbol tokens.  A string is a  *)
(* sequence of pieces; Market capitalization is counted in units of 10^9.  *)
(***************************************************************************)
MCAP == "Market capitalization"

\* a cell holding text
Text(s) == [t |-> "text", s |-> s]
IsText(a) == a.t = "text"

GreaterEqOrMissing(a, b) == IsNaN(a) \/ IsNaN(b) \/ ~Less(a, b)

\* a >= b as pandas compares floats: False when either side is NaN
GreaterEq(a, b) == ~IsNaN(a) /\ ~IsNaN(b) /\ ~Less(a, b)
Greater(a, b) == ~IsNaN(a) /\ ~IsNaN(b) /\ Less(b, a)

DigitOf ==
    ("0" :> 0) @@ ("1" :> 1) @@ ("2" :> 2) @@ ("3" :> 3) @@ ("4" :> 4)
        @@ ("5" :> 5) @@ ("6" :> 6) @@ ("7" :> 7) @@ ("8" :> 8) @@ ("9" :> 9)

\* the value of a string of digits, -1 when it is empty or holds another piece
RECURSIVE ParseDigits(_)
ParseDigits(s) ==
    IF s = <<>> THEN -1
    ELSE IF s[Len(s)] \notin DOMAIN DigitOf THEN -1
    ELSE IF Len(s) = 1 THEN DigitOf[s[1]]
    ELSE LET rest == ParseDigits(SubSeq(s, 1, Len(s) - 1))
         IN  IF rest < 0 THEN -1 ELSE 10 * rest + DigitOf[s[Len(s)]]

\* pd.to_numeric(value, errors="coerce") on one cell
ToNumeric(a) ==
    IF IsText(a)
    THEN (IF ParseDigits(a.s) < 0 THEN NaN ELSE Int2Num(ParseDigits(a.s)))
    ELSE a

\* df["Market capitalization"] = pd.to_numeric(df["Market capitalization"], errors="coerce")
CoerceMarketCap(frame) ==
    SetCol(frame, MCAP, [i \in 1..Len(frame.rows) |-> ToNumeric(frame.rows[i].cells[MCAP])])

\* 10000000000, in units of 10^9
BigCapThreshold == 10

BigCapsAll(frame) == frame

\* df[df["Market capitalization"] >= 10000000000]
BigCaps(frame) ==
    [frame EXCEPT !.rows =
        SelectSeq(frame.rows, LAMBDA r : GreaterEq(r.cells[MCAP], Int2Num(BigCapThreshold)))]

ScoreAtLeast27Strict(frame) ==
    [frame EXCEPT !.rows =
        SelectSeq(frame.rows, LAMBDA r : Greater(r.cells["score"], Num(27, 10)))]

\* df[df["score"] >= 2.7]
ScoreAtLeast27(frame) ==
    [frame EXCEPT !.rows =
        SelectSeq(frame.rows, LAMBDA r : GreaterEq(r.cells["score"], Num(27, 10)))]

ScorePositiveOrZero(frame) ==
    [frame EXCEPT !.rows =
        SelectSeq(frame.rows, LAMBDA r : GreaterEq(r.cells["score"], Int2Num(0)))]

\* df[df["score"] > 0]
ScorePositive(frame) ==
    [frame EXCEPT !.rows =
        SelectSeq(frame.rows, LAMBDA r : Greater(r.cells["score"], Int2Num(0)))]

\* the rows are in the order sort_values(by, ascending) asks for: NaN last
InOrder(rows, by, ascending) ==
    \A i, j \in 1..Len(rows) : i < j =>
        LET a == rows[i].cells[by]
            b == rows[j].cells[by]
        IN  /\ ~(IsNaN(a) /\ ~IsNaN(b))
            /\ (~IsNaN(a) /\ ~IsNaN(b)) =>
                  IF ascending THEN ~Less(b, a) ELSE ~Less(a, b)

SortValuesKeepOrder(frame, by, ascending) == {frame}

\* frame.sort_values(by=by, ascending=ascending) with the default
\* kind="quicksort": every arrangement of the rows in the order asked for
SortValues(frame, by, ascending) ==
    LET n == Len(frame.rows)
    IN  {[frame EXCEPT !.rows = rs] :
            rs \in {q \in {[i \in 1..n |-> frame.rows[p[i]]] : p \in IndexPermutations(n)} :
                      InOrder(q, by, ascending)}}

Min(a, b) == IF a <= b THEN a ELSE b

\* frame.head(n)
HeadRows(frame, n) == [frame EXCEPT !.rows = SubSeq(frame.rows, 1, Min(n, Len(frame.rows)))]

\* str(value) in an f-string: an empty cell was read as NaN and prints as nan
FormatCell(a) == IF IsText(a) THEN a.s ELSE <<"nan">>

FormatTickerListSymbolFirst(frame) ==
    [i \in 1..Len(frame.rows) |->
        FormatCell(frame.rows[i].cells["Symbol"]) \o <<":">>
            \o FormatCell(frame.rows[i].cells["Exchange"])]

\* format_ticker_list(dataframe, title)
FormatTickerList(frame) ==
    [i \in 1..Len(frame.rows) |->
        FormatCell(frame.rows[i].cells["Exchange"]) \o <<":">>
            \o FormatCell(frame.rows[i].cells["Symbol"])]

HeaderTop30 == <<"// Top 30 Big">>
HeaderTop50 == <<"// Top 50 Global">>

CreateUnifiedListHeaderWhenNeeded(list30, list50) ==
    LET rest == SelectSeq(list50, LAMBDA ticker : ticker \notin Range(list30))
    IN  <<HeaderTop30>> \o list30 \o (IF rest = <<>> THEN <<>> ELSE <<HeaderTop50>>) \o rest

\* create_unified_list(top_30_list, top_50_global_list)
CreateUnifiedList(list30, list50) ==
    <<HeaderTop30>> \o list30 \o <<HeaderTop50>>
        \o SelectSeq(list50, LAMBDA ticker : ticker \notin Range(list30))

(***************************************************************************)
(* get_latest_top_monde_file over data/ticker_room.  The name of an        *)
(* enhanced file is "TOP MONDE", a separator, the date text, possibly more *)
(* text after a space, "_enhanced", ".csv".                                *)
(***************************************************************************)
\* glob pattern "TOP MONDE*_enhanced.csv"
MatchesEnhanced(filename) ==
    /\ Len(filename) >= 3
    /\ filename[1] = "TOP MONDE"
    /\ filename[Len(filename) - 1] = "_enhanced"
    /\ filename[Len(filename)] = ".csv"

\* if "TOP MONDE_" in filename
HasDatePrefix(filename) ==
    \E i \in 1..(Len(filename) - 1) : filename[i] = "TOP MONDE" /\ filename[i + 1] = "_"

\* str.replace(old, ""): every occurrence of old is removed, left to right
RECURSIVE Remove(_, _)
Remove(name, old) ==
    IF Len(name) < Len(old) THEN name
    ELSE IF SubSeq(name, 1, Len(old)) = old
         THEN Remove(SubSeq(name, Len(old) + 1, Len(name)), old)
         ELSE <<Head(name)>> \o Remove(Tail(name), old)

\* str.split(" ")[0]: the text before the first space
RECURSIVE FirstPart(_)
FirstPart(name) ==
    IF name = <<>> \/ Head(name) = " " THEN <<>>
    ELSE <<Head(name)>> \o FirstPart(Tail(name))

\* the text left by the three replace calls, up to the first space
DateStr(filename) ==
    FirstPart(Remove(Remove(Remove(filename, <<"TOP MONDE", "_">>),
                            <<"_enhanced", ".csv">>),
                     <<".csv">>))

\* datetime.strptime(date_str, "%Y-%m-%d") as a day number, -1 for a ValueError
StrpTime(date_str) ==
    IF Len(date_str) # 1 THEN -1
    ELSE CASE date_str[1] = "2024-01-01" -> 20240101
           [] date_str[1] = "2024-01-02" -> 20240102
           [] date_str[1] = "2024-01-03" -> 20240103
           [] OTHER -> -1

\* the files whose name gives a date
Dated(room) ==
    {f \in DOMAIN room :
        MatchesEnhanced(f) /\ HasDatePrefix(f) /\ StrpTime(DateStr(f)) >= 0}

\* the exception get_latest_top_monde_file raises on room, "none" when it returns
LatestFileError(room) ==
    IF {f \in DOMAIN room : MatchesEnhanced(f)} = {} THEN "FileNotFoundError"
    ELSE IF Dated(room) = {} THEN "ValueError"
    ELSE "none"

LatestFilesOldest(room) ==
    {f \in Dated(room) :
        \A g \in Dated(room) : StrpTime(DateStr(g)) >= StrpTime(DateStr(f))}

\* the files get_latest_top_monde_file may return: the loop keeps the first
\* file of the glob order that has the greatest date, and glob orders the
\* files arbitrarily
LatestFiles(room) ==
    {f \in Dated(room) :
        \A g \in Dated(room) : StrpTime(DateStr(g)) <= StrpTime(DateStr(f))}

\* the exception lines 75-152 of create_ticker_lists raise on frame, "none"
\* when they run through: ValueError for a missing column; a score column
\* holding text is an object column and its comparison with a float, in
\* sort_values or in df["score"] >= 2.7, is a TypeError
CurationError(frame) ==
    IF MissingColumns(CuratorRequiredColumns, frame.columns) # <<>> THEN "ValueError"
    ELSE IF \E i \in 1..Len(frame.rows) : IsText(frame.rows[i].cells["score"])
    THEN "TypeError"
    ELSE "none"

\* datetime.now().strftime("%Y-%m-%d")
TodayDate == "2024-01-05"

UnifiedPath == <<"top_monde_", TodayDate, ".txt">>
Score27Path == <<"top_monde_2_7_", TodayDate, ".txt">>
Worst100Path == <<"top_monde_worst_100_", TodayDate, ".txt">>
ListPaths == {UnifiedPath, Score27Path, Worst100Path}

\* what the loop "for ticker in lines: f.write(f"{ticker}\n")" writes: every
\* ticker followed by a line feed
RECURSIVE FileText(_)
FileText(lines) ==
    IF lines = <<>> THEN <<>>
    ELSE Head(lines) \o <<"\n">> \o FileText(Tail(lines))

WriteListOutcomesAppend(dir, path, lines) ==
    LET Put(text) == [n \in DOMAIN dir \cup {path} |-> IF n = path THEN text ELSE dir[n]]
    IN  {[exc |-> "none",
          dir |-> Put((IF path \in DOMAIN dir THEN dir[path] ELSE <<>>) \o FileText(lines))],
         [exc |-> "OSError", dir |-> dir],
         [exc |-> "OSError", dir |-> Put(<<>>)]}

\* with open(path, "w", encoding="utf-8") as f: the loop above.  The ways it
\* can end: the file holds the text; open fails and the directory is as
\* before; open has truncated the file and a write or the close fails
WriteListOutcomes(dir, path, lines) ==
    LET Put(text) == [n \in DOMAIN dir \cup {path} |-> IF n = path THEN text ELSE dir[n]]
    IN  {[exc |-> "none", dir |-> Put(FileText(lines))],
         [exc |-> "OSError", dir |-> dir],
         [exc |-> "OSError", dir |-> Put(<<>>)]}

(***************************************************************************)
(* create_ticker_lists, step by step, on every enhanced dataset of at most *)
(* MaxListRows rows of ListRowPool.  head(30), head(50) and                *)
(* head(100) are scaled to these datasets as Top30Size, Top50Size and      *)
(* Worst100Size.                                                           *)
(***************************************************************************)
MaxListRows == 3
Top30Size == 2
Top50Size == 2
Worst100Size == 2
MaxCalls == 2

CuratorColumns == {"Symbol", "Exchange", MCAP, "score", "score_2"}

\* one row of an enhanced artifact; the scores in hundredths
ListRow(symbol, exchange, cap, score, score_2) ==
    ("Symbol" :> symbol) @@ ("Exchange" :> exchange) @@ (MCAP :> cap)
        @@ ("score" :> score) @@ ("score_2" :> score_2)

Hundredths(n) == Num(n, 100)

AAPL == ListRow(Text(<<"AAPL">>), Text(<<"NASDAQ">>), Int2Num(25),
                Hundredths(300), Hundredths(280))
MSFT == ListRow(Text(<<"MSFT">>), Text(<<"NASDAQ">>), Int2Num(10),
                Hundredths(290), Hundredths(310))
JPM == ListRow(Text(<<"JPM">>), Text(<<"NYSE">>), Int2Num(9),
               Hundredths(350), Hundredths(340))
XOM == ListRow(Text(<<"XOM">>), Text(<<"NYSE">>), Text(<<"unknown">>),
               Hundredths(270), Hundredths(260))
TSLA == ListRow(Text(<<"TSLA">>), Text(<<"NASDAQ">>), Text(<<"1", "2">>),
                Hundredths(0), Hundredths(0))
KO == ListRow(Text(<<"KO">>), Text(<<"NYSE">>), Int2Num(40),
              Hundredths(269), Hundredths(275))
AAPL2 == ListRow(Text(<<"AAPL">>), Text(<<"NASDAQ">>), Int2Num(5),
                 Hundredths(1), Hundredths(2))
GME == ListRow(Text(<<"GME">>), NaN, Int2Num(12),
               Hundredths(-50), Hundredths(-40))
NVDA == ListRow(Text(<<"NVDA">>), Text(<<"NASDAQ">>), Int2Num(30), Inf, Inf)
NVDA2 == ListRow(Text(<<"NVDA">>), Text(<<"NASDAQ">>), Int2Num(20), Inf, Inf)

\* the rows a dataset is drawn from, in file order: AAPL and NVDA come twice,
\* NVDA with the same score
ListRowPool == <<AAPL, MSFT, JPM, XOM, TSLA, KO, AAPL2, GME, NVDA, NVDA2>>

\* the datasets of at most MaxListRows rows of the pool
ListDatasets ==
    {SelectSeq(ListRowPool, LAMBDA row : row \in chosen) :
        chosen \in {c \in SUBSET Range(ListRowPool) : Cardinality(c) <= MaxListRows}}

\* an enhanced artifact holding the given rows
Enhanced(cols, cellrows) == [kind |-> "full", columns |-> cols, cellrows |-> cellrows]

SampleRows == <<JPM, AAPL>>
OtherRows == <<KO>>

\* the sample dataset without one column, or with text in its score column
FaultyArtifacts ==
    {Enhanced(CuratorColumns \ {c},
              [i \in 1..Len(SampleRows) |-> [k \in CuratorColumns \ {c} |-> SampleRows[i][k]]]) :
        c \in CuratorColumns}
      \cup {Enhanced(CuratorColumns, <<[JPM EXCEPT !["score"] = Text(<<"high">>)], AAPL>>)}

EnhancedFileName(sep, date_str, more) == <<"TOP MONDE", sep, date_str>> \o more \o <<"_enhanced", ".csv">>

\* what data/ticker_room may look like around an artifact
TickerRooms(content) ==
    LET other == Enhanced(CuratorColumns, OtherRows)
    IN  {<<>>,
         (<<"SP500", "_", "2024-01-03", "_enhanced", ".csv">> :> content),
         (EnhancedFileName("_", "2024-01-02", <<>>) :> content),
         (EnhancedFileName("_", "2024-01-01", <<>>) :> other)
             @@ (EnhancedFileName("_", "2024-01-03", <<>>) :> content),
         (EnhancedFileName("_", "2024-01-02", <<>>) :> content)
             @@ (EnhancedFileName("_", "2024-01-02", <<" ", "(1)">>) :> other),
         (EnhancedFileName("_", "2024-01-03", <<"_enhanced">>) :> other)
             @@ (EnhancedFileName("_", "2024-01-02", <<>>) :> content),
         (EnhancedFileName("_", "latest", <<>>) :> other),
         (EnhancedFileName("_", "latest", <<>>) :> other)
             @@ (EnhancedFileName(" ", "2024-01-03", <<>>) :> other)
             @@ (EnhancedFileName("_", "2024-01-01", <<>>) :> content)}

\* list files an earlier run of the same day left in data
StaleLists == [path \in ListPaths |-> FileText(<<<<"NYSE", ":", "OLD">>>>)]

InitCurate ==
    /\ df = NoFrame /\ df0 = NoFrame /\ out1 = NoFrame
    /\ required_columns = <<>> /\ missing_columns = <<>>
    /\ pc = "call"
    /\ waiting_room = <<>>
    /\ \/ /\ \E rs \in ListDatasets :
                ticker_room = (EnhancedFileName("_", "2024-01-02", <<>>)
                                  :> Enhanced(CuratorColumns, rs))
          /\ data_dir = <<>>
       \/ /\ \E content \in FaultyArtifacts \cup {Enhanced(CuratorColumns, SampleRows)} :
                ticker_room \in TickerRooms(content)
          /\ data_dir \in {<<>>, StaleLists}
    /\ csv_files = <<>>
    /\ next_file = 1
    /\ processed_count = 0
    /\ result = "none"
    /\ runs = 0
    /\ ticker_room0 = ticker_room
    /\ skipped = {}
    /\ attempted = {}
    /\ succeeded = {}
    /\ files_read = {}
    /\ previous = <<>>
    /\ latest_file = <<>>
    /\ df_filtered = NoFrame
    /\ top_30 = NoFrame
    /\ top_50_global = NoFrame
    /\ df_score_filtered = NoFrame
    /\ worst_100 = NoFrame
    /\ top_30_list = <<>>
    /\ top_50_global_list = <<>>
    /\ unified_ticker_list = <<>>
    /\ score_27_list = <<>>
    /\ worst_100_list = <<>>
    /\ success = "none"
    /\ error = "none"
    /\ data_dir0 = data_dir
    /\ calls = 1
    /\ NoCleanup

\* except Exception as e: ... return False
ReturnFalse(exc) ==
    /\ pc' = "returned"
    /\ success' = "False"
    /\ error' = exc

\* get_latest_top_monde_file, read_csv and the column check
LoadLatest ==
    /\ pc = "call"
    /\ IF LatestFileError(ticker_room) # "none"
       THEN /\ ReturnFalse(LatestFileError(ticker_room))
            /\ UNCHANGED <<df, df0, cvars, latest_file>>
       ELSE \E f \in LatestFiles(ticker_room) :
              LET frame == ReadCsv(ticker_room[f])
              IN  /\ latest_file' = f
                  /\ df' = frame
                  /\ df0' = frame
                  /\ required_columns' = CuratorRequiredColumns
                  /\ missing_columns' = MissingColumns(CuratorRequiredColumns, frame.columns)
                  /\ IF CurationError(frame) = "ValueError"
                     THEN ReturnFalse("ValueError")
                     ELSE pc' = "loaded" /\ UNCHANGED <<success, error>>
    /\ UNCHANGED <<out1, bvars, fvars, lvars, data_dir, data_dir0, calls>>
    /\ UNCHANGED kvars

\* the coercion of Market capitalization, top_30 and top_50_global
SelectTops ==
    /\ pc = "loaded"
    /\ IF CurationError(df) # "none"
       THEN /\ ReturnFalse(CurationError(df))
            /\ UNCHANGED <<df, df_filtered, top_30, top_50_global>>
       ELSE /\ df' = CoerceMarketCap(df)
            /\ df_filtered' \in SortValues(BigCaps(df'), "score", FALSE)
            /\ top_30' = HeadRows(df_filtered', Top30Size)
            /\ \E df_all_sorted \in SortValues(df', "score", FALSE) :
                  top_50_global' = HeadRows(df_all_sorted, Top50Size)
            /\ pc' = "selected"
            /\ UNCHANGED <<success, error>>
    /\ UNCHANGED <<df0, out1, cvars, bvars, df_score_filtered, worst_100, lvars,
                   data_dir, latest_file, data_dir0, calls>>
    /\ UNCHANGED kvars

\* format_ticker_list on the two selections, then create_unified_list
FormatTops ==
    /\ pc = "selected"
    /\ top_30_list' = FormatTickerList(top_30)
    /\ top_50_global_list' = FormatTickerList(top_50_global)
    /\ unified_ticker_list' = CreateUnifiedList(top_30_list', top_50_global_list')
    /\ pc' = "formatted"
    /\ UNCHANGED <<tvars, cvars, bvars, fvars, score_27_list, worst_100_list, ovars>>
    /\ UNCHANGED kvars

\* the list of the tickers with score >= 2.7
SelectScore27 ==
    /\ pc = "formatted"
    /\ df_score_filtered' \in SortValues(ScoreAtLeast27(df), "score", FALSE)
    /\ score_27_list' = FormatTickerList(df_score_filtered')
    /\ pc' = "threshold"
    /\ UNCHANGED <<tvars, cvars, bvars, df_filtered, top_30, top_50_global, worst_100,
                   top_30_list, top_50_global_list, unified_ticker_list, worst_100_list,
                   ovars>>
    /\ UNCHANGED kvars

\* the list of the 100 worst performers
SelectWorst100 ==
    /\ pc = "threshold"
    /\ \E df_worst_performers \in SortValues(ScorePositive(df), "score", TRUE) :
          worst_100' = HeadRows(df_worst_performers, Worst100Size)
    /\ worst_100_list' = FormatTickerList(worst_100')
    /\ pc' = "lists"
    /\ UNCHANGED <<tvars, cvars, bvars, df_filtered, top_30, top_50_global,
                   df_score_filtered, top_30_list, top_50_global_list,
                   unified_ticker_list, score_27_list, ovars>>
    /\ UNCHANGED kvars

\* the unified list is written
WriteUnified ==
    /\ pc = "lists"
    /\ \E o \in WriteListOutcomes(data_dir, UnifiedPath, unified_ticker_list) :
          /\ data_dir' = o.dir
          /\ IF o.exc = "none"
             THEN pc' = "unified_written" /\ UNCHANGED <<success, error>>
             ELSE ReturnFalse(o.exc)
    /\ UNCHANGED <<tvars, cvars, bvars, fvars, lvars, latest_file, data_dir0, calls>>
    /\ UNCHANGED kvars

\* the score >= 2.7 list is written
WriteScore27 ==
    /\ pc = "unified_written"
    /\ \E o \in WriteListOutcomes(data_dir, Score27Path, score_27_list) :
          /\ data_dir' = o.dir
          /\ IF o.exc = "none"
             THEN pc' = "score_27_written" /\ UNCHANGED <<success, error>>
             ELSE ReturnFalse(o.exc)
    /\ UNCHANGED <<tvars, cvars, bvars, fvars, lvars, latest_file, data_dir0, calls>>
    /\ UNCHANGED kvars

\* the worst performers list is written
WriteWorst100 ==
    /\ pc = "score_27_written"
    /\ \E o \in WriteListOutcomes(data_dir, Worst100Path, worst_100_list) :
          /\ data_dir' = o.dir
          /\ IF o.exc = "none"
             THEN pc' = "worst_100_written" /\ UNCHANGED <<success, error>>
             ELSE ReturnFalse(o.exc)
    /\ UNCHANGED <<tvars, cvars, bvars, fvars, lvars, latest_file, data_dir0, calls>>
    /\ UNCHANGED kvars

\* return True
ReturnTrue ==
    /\ pc = "worst_100_written"
    /\ success' = "True"
    /\ pc' = "returned"
    /\ UNCHANGED <<tvars, cvars, bvars, fvars, lvars, data_dir, latest_file, error,
                   data_dir0, calls>>
    /\ UNCHANGED kvars

NextCurate ==
    \/ LoadLatest
    \/ SelectTops
    \/ FormatTops
    \/ SelectScore27
    \/ SelectWorst100
    \/ WriteUnified
    \/ WriteScore27
    \/ WriteWorst100
    \/ ReturnTrue

SpecCurate == InitCurate /\ [][NextCurate]_vars

(***************************************************************************)
(* From a raw snapshot to the lists: _process_single_file on one file of   *)
(* waiting_room, then create_ticker_lists on the artifact it leaves.       *)
(***************************************************************************)
RawColumns == {"Symbol", "Exchange", MCAP} \cup InputColumns

\* one row of a raw snapshot: the sample row with its 1-year performance and
\* its two moving averages varied
RawRow(symbol, p1y, sma21, sma200) ==
    ("Symbol" :> Text(<<symbol>>)) @@ ("Exchange" :> Text(<<"NYSE">>))
        @@ (MCAP :> Int2Num(25)) @@ InputRow(Int2Num(p1y), sma21, sma200)

\* unrounded scores 2.697, 2.694, 2.701, 0.004, 0.006 and about 2.099
RawRowPool ==
    <<RawRow("A", 25, Int2Num(331), Int2Num(200)),
      RawRow("B", 25, Int2Num(413), Int2Num(250)),
      RawRow("C", 25, Int2Num(1659), Int2Num(1000)),
      RawRow("D", -1017, Int2Num(1), Int2Num(250)),
      RawRow("E", -1017, Int2Num(3), Int2Num(500)),
      RawRow("F", 25, Int2Num(148), Int2Num(140))>>

\* the snapshots: at most MaxRows rows of the pool, in pool order
RawDatasets ==
    {[i \in 1..Len(rs) |-> RawRowPool[rs[i]]] :
        rs \in {q \in UNION {[1..n -> 1..Len(RawRowPool)] : n \in 0..MaxRows} :
                  \A i, j \in DOMAIN q : i < j => q[i] < q[j]}}

RawFileName == <<"TOP MONDE", "_", "2024-01-02", ".csv">>

\* _process_single_file has read the one file of waiting_room
InitPipeline ==
    /\ \E rs \in RawDatasets :
          waiting_room = (RawFileName :> [readable |-> TRUE, columns |-> RawColumns,
                                          cellrows |-> rs])
    /\ df = ReadCsv(waiting_room[RawFileName])
    /\ df0 = df
    /\ out1 = NoFrame
    /\ pc = "start"
    /\ required_columns = <<>>
    /\ missing_columns = <<>>
    /\ ticker_room = <<>>
    /\ csv_files = <<RawFileName>>
    /\ next_file = 1
    /\ processed_count = 0
    /\ result = "none"
    /\ runs = 1
    /\ ticker_room0 = <<>>
    /\ skipped = {}
    /\ attempted = {RawFileName}
    /\ succeeded = {}
    /\ files_read = {RawFileName}
    /\ previous = <<>>
    /\ NoCuration
    /\ NoCleanup

\* df.to_csv(output_file, index=False) succeeds and _process_single_file
\* returns True; create_ticker_lists is called next
PersistArtifact ==
    /\ pc = "sorted"
    /\ ticker_room' = (EnhancedName(RawFileName) :> ToCsv(df))
    /\ succeeded' = succeeded \cup {RawFileName}
    /\ processed_count' = processed_count + 1
    /\ next_file' = next_file + 1
    /\ pc' = "call"
    /\ calls' = 1
    /\ UNCHANGED <<tvars, cvars, waiting_room, csv_files, result, runs, ticker_room0,
                   skipped, attempted, files_read, previous, fvars, lvars,
                   data_dir, latest_file, success, error, data_dir0>>
    /\ UNCHANGED kvars

NextPipeline ==
    \/ PerformanceStep
    \/ TechnicalStep
    \/ ScoresStep
    \/ FillNaStep
    \/ RoundStep
    \/ SortStep
    \/ PersistArtifact
    \/ LoadLatest
    \/ SelectTops
    \/ FormatTops
    \/ SelectScore27
    \/ SelectWorst100
    \/ WriteUnified
    \/ WriteScore27
    \/ WriteWorst100
    \/ ReturnTrue

SpecPipeline == InitPipeline /\ [][NextPipeline]_vars

(***************************************************************************)
(* create_ticker_lists called several times the same day                   *)
(***************************************************************************)
\* between two calls the batch has left one more enhanced artifact, dated
\* after every other, in ticker_room
NewerFileName == EnhancedFileName("_", "2024-01-03", <<>>)

ArtifactArrives ==
    /\ pc = "returned"
    /\ calls < MaxCalls
    /\ NewerFileName \notin DOMAIN ticker_room
    /\ ticker_room' = [f \in DOMAIN ticker_room \cup {NewerFileName} |->
                          IF f = NewerFileName THEN Enhanced(CuratorColumns, OtherRows)
                          ELSE ticker_room[f]]
    /\ UNCHANGED <<tvars, pc, cvars, waiting_room, csv_files, next_file, processed_count,
                   result, runs, ticker_room0, skipped, attempted, succeeded, files_read,
                   previous, fvars, lvars, ovars>>
    /\ UNCHANGED kvars

\* create_ticker_lists is called once more, the same day: its locals are new
CallAgain ==
    /\ pc = "returned"
    /\ calls < MaxCalls
    /\ calls' = calls + 1
    /\ pc' = "call"
    /\ data_dir0' = data_dir
    /\ df' = NoFrame /\ df0' = NoFrame
    /\ required_columns' = <<>> /\ missing_columns' = <<>>
    /\ latest_file' = <<>>
    /\ df_filtered' = NoFrame
    /\ top_30' = NoFrame
    /\ top_50_global' = NoFrame
    /\ df_score_filtered' = NoFrame
    /\ worst_100' = NoFrame
    /\ top_30_list' = <<>>
    /\ top_50_global_list' = <<>>
    /\ unified_ticker_list' = <<>>
    /\ score_27_list' = <<>>
    /\ worst_100_list' = <<>>
    /\ success' = "none"
    /\ error' = "none"
    /\ UNCHANGED <<out1, bvars, data_dir>>
    /\ UNCHANGED kvars

\* the first call finds one artifact of fewer than MaxListRows rows, or one of
\* the directory shapes of TickerRooms
InitRerun ==
    /\ InitCurate
    /\ \A f \in DOMAIN ticker_room : Len(ticker_room[f].cellrows) < MaxListRows

NextRerun ==
    \/ LoadLatest
    \/ SelectTops
    \/ FormatTops
    \/ SelectScore27
    \/ SelectWorst100
    \/ WriteUnified
    \/ WriteScore27
    \/ WriteWorst100
    \/ ReturnTrue
    \/ ArtifactArrives
    \/ CallAgain

SpecRerun == InitRerun /\ [][NextRerun]_vars

(***************************************************************************)
(* Claims about create_ticker_lists (checked under SpecCurate).            *)
(***************************************************************************)
\* each DataFrame format_ticker_list was called on, with the list it returned
Formatted ==
    {<<df_score_filtered, score_27_list>>, <<worst_100, worst_100_list>>}
        \cup (IF pc = "selected" THEN {}
              ELSE {<<top_30, top_30_list>>, <<top_50_global, top_50_global_list>>})

\* C11: format_ticker_list returns one token per row, in row order; for a row
\* whose Exchange and Symbol are text the token is the Exchange, a colon and
\* the Symbol; two rows with equal Exchange and equal Symbol have equal
\* tokens, whatever their other fields.
C11_TokenPerRowInOrder ==
    \A fl \in Formatted :
        LET rows == fl[1].rows
            list == fl[2]
        IN  /\ Len(list) = Len(rows)
            /\ \A i \in 1..Len(rows) :
                  LET e == rows[i].cells["Exchange"]
                      y == rows[i].cells["Symbol"]
                  IN  (IsText(e) /\ IsText(y)) =>
                        /\ Len(list[i]) = Len(e.s) + 1 + Len(y.s)
                        /\ SubSeq(list[i], 1, Len(e.s)) = e.s
                        /\ list[i][Len(e.s) + 1] = ":"
                        /\ SubSeq(list[i], Len(e.s) + 2, Len(list[i])) = y.s
            /\ \A gl \in Formatted :
                  \A i \in 1..Len(rows), j \in 1..Len(gl[1].rows) :
                      (/\ rows[i].cells["Exchange"] = gl[1].rows[j].cells["Exchange"]
                       /\ rows[i].cells["Symbol"] = gl[1].rows[j].cells["Symbol"])
                          => list[i] = gl[2][j]

C11_Witness ==
    /\ pc = "formatted"
    /\ top_30_list = <<<<"NASDAQ", ":", "AAPL">>, <<"nan", ":", "GME">>>>
    /\ top_50_global_list = <<<<"NASDAQ", ":", "AAPL">>, <<"NASDAQ", ":", "AAPL">>>>
    /\ top_50_global.rows[1].cells["score"] # top_50_global.rows[2].cells["score"]

\* top_30_list, top_50_global_list and unified_ticker_list have been computed
TopsFormatted ==
    \/ pc \in {"formatted", "threshold", "lists", "unified_written", "score_27_written",
               "worst_100_written"}
    \/ pc = "returned" /\ error \in {"none", "OSError"}

\* the positions of list that hold item
Occurrences(list, item) == {i \in 1..Len(list) : list[i] = item}

\* C12: whatever the two lists (empty ones included), the unified list starts
\* with "// Top 30 Big", the Top-30 tokens follow in order, "// Top 50 Global"
\* comes right after them, and each header occurs exactly once.
C12_HeadersInFixedPosition ==
    TopsFormatted =>
        /\ Len(unified_ticker_list) >= Len(top_30_list) + 2
        /\ unified_ticker_list[1] = HeaderTop30
        /\ \A i \in 1..Len(top_30_list) : unified_ticker_list[i + 1] = top_30_list[i]
        /\ unified_ticker_list[Len(top_30_list) + 2] = HeaderTop50
        /\ Cardinality(Occurrences(unified_ticker_list, HeaderTop30)) = 1
        /\ Cardinality(Occurrences(unified_ticker_list, HeaderTop50)) = 1

C12_Witness ==
    /\ pc = "formatted"
    /\ Len(top_30_list) = 2
    /\ Range(top_50_global_list) = Range(top_30_list)
    /\ Len(unified_ticker_list) = 4

\* the part of the unified list after "// Top 50 Global"
GlobalSection ==
    SubSeq(unified_ticker_list, Len(top_30_list) + 3, Len(unified_ticker_list))

\* list without the items of drop, the order of the others kept
Without(list, drop) == SelectSeq(list, LAMBDA item : item \notin drop)

\* C13 (as stated): the section after "// Top 50 Global" is the Top-50 list
\* without the tokens of the Top-30 list, in the same order; a token of both
\* lists occurs exactly once in the unified list, in the Top-30 section.
C13_GlobalSectionDeduplicated ==
    TopsFormatted =>
        /\ GlobalSection = Without(top_50_global_list, Range(top_30_list))
        /\ \A token \in Range(top_30_list) \cap Range(top_50_global_list) :
              /\ Cardinality(Occurrences(unified_ticker_list, token)) = 1
              /\ \A i \in Occurrences(unified_ticker_list, token) :
                    i <= Len(top_30_list) + 1

\* the Top-30 selection read as two tiers: its first TierSize tokens (15 of
\* 30) and the tokens after them
TierSize == Top30Size \div 2
TierA == SubSeq(top_30_list, 1, Min(TierSize, Len(top_30_list)))
TierB == SubSeq(top_30_list, Len(TierA) + 1, Len(top_30_list))

\* C14 (as stated): whatever the dataset, rows sharing Exchange and Symbol
\* included, no token occurs twice in the Top-30 selection and no token of
\* Tier B is in Tier A.
C14_Top30NoDuplicateTokens ==
    TopsFormatted =>
        /\ \A i, j \in 1..Len(top_30_list) : i # j => top_30_list[i] # top_30_list[j]
        /\ Range(TierA) \cap Range(TierB) = {}

\* list with only the first occurrence of each item kept
RECURSIVE FirstOccurrences(_)
FirstOccurrences(list) ==
    IF list = <<>> THEN <<>>
    ELSE LET front == SubSeq(list, 1, Len(list) - 1)
             last == list[Len(list)]
         IN  IF last \in Range(front) THEN FirstOccurrences(front)
             ELSE FirstOccurrences(front) \o <<last>>

FirstTokens(list, n) == SubSeq(list, 1, Min(n, Len(list)))

\* no two rows of frame have the same token
DistinctTokens(frame) ==
    \A i, j \in 1..Len(frame.rows) :
        i # j => FormatTickerList(frame)[i] # FormatTickerList(frame)[j]

\* C15 (as stated, on datasets whose rows have distinct tokens): the first
\* TierSize tokens of the Top-30 selection are the records that pass the
\* capitalization filter ranked by score_2 descending (Tier A); they are
\* followed by the first TierSize tokens, Tier A's skipped, of the same
\* records ranked by score descending (Tier B).
C15_Top30Tiered ==
    (TopsFormatted /\ DistinctTokens(df)) =>
        /\ \E by_score_2 \in SortValues(BigCaps(df), "score_2", FALSE) :
              TierA = FirstTokens(FirstOccurrences(FormatTickerList(by_score_2)), TierSize)
        /\ \E by_score \in SortValues(BigCaps(df), "score", FALSE) :
              TierB = FirstTokens(
                          Without(FirstOccurrences(FormatTickerList(by_score)), Range(TierA)),
                          TierSize)

\* an enhanced file was found and read, and it has the required columns and
\* a numeric score column
ValidDataset == latest_file # <<>> /\ CurationError(df0) = "none"

\* the capitalization text or number reads as a number of at least 10^10
PassesCap(cap) ==
    LET value == ToNumeric(cap)
    IN  \/ IsNum(value) /\ value.n >= BigCapThreshold * value.d
        \/ IsInf(value) /\ value.n > 0

\* the number of records of the file whose capitalization passes
BigCapCount == Cardinality({i \in 1..Len(df0.rows) : PassesCap(df0.rows[i].cells[MCAP])})

\* every list file holds the whole of its list
AllListsWritten ==
    /\ ListPaths \subseteq DOMAIN data_dir
    /\ data_dir[UnifiedPath] = FileText(unified_ticker_list)
    /\ data_dir[Score27Path] = FileText(score_27_list)
    /\ data_dir[Worst100Path] = FileText(worst_100_list)

\* C16: when fewer records than the Top-30 size pass the capitalization
\* filter (none included), the Top-30 section has at most that many tokens,
\* no step of the curation raises (short of an I/O failure on a list file),
\* and the run returns True with every list file written.
C16_ShortUniverseNoError ==
    (ValidDataset /\ BigCapCount < Top30Size) =>
        /\ error \in {"none", "OSError"}
        /\ TopsFormatted => Len(top_30_list) <= BigCapCount
        /\ (pc = "returned" /\ error = "none") =>
              success = "True" /\ AllListsWritten

C16_Witness ==
    /\ pc = "returned"
    /\ success = "True"
    /\ Len(df0.rows) = 3
    /\ BigCapCount = 1
    /\ Len(top_30_list) = 1
    /\ Len(unified_ticker_list) = 5
    /\ AllListsWritten

\* score_27_list has been computed
Score27Computed == TopsFormatted /\ pc # "formatted"

\* worst_100_list has been computed
Worst100Computed == Score27Computed /\ pc # "threshold"

\* the record of the file that the row came from
Record(row) == df0.rows[row.idx + 1]

Score(row) == row.cells["score"]

\* C17: every row of the Top-30 selection is a record whose capitalization,
\* once coerced, is at least 10^10, so a record with a lower or non-numeric
\* capitalization is never in it; such a record is still selected by score
\* alone elsewhere: it is left out of the Top-50 selection only for 50 records
\* of at least its score, it is in the score-threshold list exactly when its
\* score is at least 2.7, and with a positive score it is left out of the
\* worst performers only for 100 records with at most its score.
C17_CapFilterOnlyForTop30 ==
    TopsFormatted =>
        /\ \A i \in 1..Len(top_30.rows) :
              /\ PassesCap(Record(top_30.rows[i]).cells[MCAP])
              /\ \E j \in 1..Len(df0.rows) :
                    /\ PassesCap(df0.rows[j].cells[MCAP])
                    /\ top_30_list[i] = FormatTickerList(df0)[j]
        /\ \A r \in Range(df.rows) : ~PassesCap(Record(r).cells[MCAP]) =>
              /\ r.idx \notin Indexes(top_30)
              /\ r.idx \notin Indexes(top_50_global) =>
                    /\ Len(top_50_global.rows) = Top50Size
                    /\ \A q \in Range(top_50_global.rows) : ~Less(Score(q), Score(r))
              /\ Score27Computed =>
                    (r.idx \in Indexes(df_score_filtered)
                        <=> ~Less(Score(r), Num(27, 10)))
              /\ (Worst100Computed /\ Less(Int2Num(0), Score(r))
                    /\ r.idx \notin Indexes(worst_100)) =>
                    /\ Len(worst_100.rows) = Worst100Size
                    /\ \A q \in Range(worst_100.rows) : ~Less(Score(r), Score(q))

C17_Witness ==
    /\ pc = "lists"
    /\ top_30_list = <<<<"NASDAQ", ":", "AAPL">>>>
    /\ top_50_global_list = <<<<"NYSE", ":", "JPM">>, <<"NASDAQ", ":", "AAPL">>>>
    /\ Len(score_27_list) = 3
    /\ worst_100_list = <<<<"NYSE", ":", "XOM">>, <<"NASDAQ", ":", "AAPL">>>>

\* the rows of selection are distinct records of the dataset, unchanged but
\* for the coerced capitalization, and tokens lists their tokens in order
SelectedRecords(selection, tokens) ==
    /\ \A i, j \in 1..Len(selection.rows) :
          i # j => selection.rows[i].idx # selection.rows[j].idx
    /\ \A i \in 1..Len(selection.rows) :
          /\ selection.rows[i] \in Range(df.rows)
          /\ Score(selection.rows[i]) = Score(Record(selection.rows[i]))
    /\ tokens = [i \in 1..Len(selection.rows) |->
                    FormatTickerList(df0)[selection.rows[i].idx + 1]]

\* the records of the dataset that are not in selection
Outside(selection) == {r \in Range(df.rows) : r.idx \notin Indexes(selection)}

\* C18: the Top-50 selection holds min(50, number of records) records of the
\* whole dataset, whatever their capitalization, in non-increasing score
\* order, and no record outside it has a strictly higher score than a record
\* inside it.
C18_Top50ByScoreUnfiltered ==
    TopsFormatted =>
        /\ Len(top_50_global_list) = Min(Top50Size, Len(df0.rows))
        /\ SelectedRecords(top_50_global, top_50_global_list)
        /\ \A i, j \in 1..Len(top_50_global.rows) :
              i < j => ~Less(Score(top_50_global.rows[i]), Score(top_50_global.rows[j]))
        /\ \A r \in Outside(top_50_global) : \A q \in Range(top_50_global.rows) :
              ~Less(Score(q), Score(r))

C18_Witness ==
    /\ pc = "formatted"
    /\ Len(df0.rows) = 3
    /\ top_50_global_list = <<<<"NYSE", ":", "JPM">>, <<"NYSE", ":", "XOM">>>>
    /\ top_30_list = <<<<"NYSE", ":", "KO">>>>

\* C19: the score-threshold list has an entry for a record exactly when the
\* record's score is at least 2.7, whatever its capitalization and however
\* many there are, and its entries are in non-increasing score order.
C19_ThresholdListExact ==
    Score27Computed =>
        /\ SelectedRecords(df_score_filtered, score_27_list)
        /\ \A r \in Range(df.rows) :
              r.idx \in Indexes(df_score_filtered) <=> ~Less(Score(r), Num(27, 10))
        /\ \A i, j \in 1..Len(df_score_filtered.rows) :
              i < j => ~Less(Score(df_score_filtered.rows[i]),
                             Score(df_score_filtered.rows[j]))

C19_Witness ==
    /\ pc = "threshold"
    /\ Len(df0.rows) = 3
    /\ \E r \in Range(df.rows) : Score(r) = Hundredths(269) /\ PassesCap(r.cells[MCAP])
    /\ score_27_list = <<<<"NYSE", ":", "JPM">>, <<"NYSE", ":", "XOM">>>>

\* the records of the dataset with a score above 0
PositiveScores == {r \in Range(df.rows) : Less(Int2Num(0), Score(r))}

\* C20: every record of the worst-performers list has a score above 0, the
\* list holds min(100, number of records with a score above 0) records in
\* non-decreasing score order, and no record with a score above 0 that is
\* left out has a strictly lower score than a record of the list.
C20_WorstPerformersPositiveOnly ==
    Worst100Computed =>
        /\ SelectedRecords(worst_100, worst_100_list)
        /\ \A q \in Range(worst_100.rows) : Less(Int2Num(0), Score(q))
        /\ Len(worst_100_list) = Min(Worst100Size, Cardinality(PositiveScores))
        /\ \A i, j \in 1..Len(worst_100.rows) :
              i < j => ~Less(Score(worst_100.rows[j]), Score(worst_100.rows[i]))
        /\ \A r \in PositiveScores \cap Outside(worst_100) :
              \A q \in Range(worst_100.rows) : ~Less(Score(r), Score(q))

C20_Witness ==
    /\ pc = "lists"
    /\ Len(df0.rows) = 3
    /\ \E r \in Range(df.rows) : Score(r) = Int2Num(0)
    /\ Cardinality(PositiveScores) = 2
    /\ worst_100_list = <<<<"NASDAQ", ":", "AAPL">>, <<"NASDAQ", ":", "AAPL">>>>
    /\ Score(worst_100.rows[1]) = Hundredths(1)

(***************************************************************************)
(* Claims on the outcome of create_ticker_lists                            *)
(***************************************************************************)
\* every list file holds nothing but its list of the current call
RunListsWritten == AllListsWritten

\* no list file was created or modified since the current call began
NoListTouched ==
    \A path \in ListPaths :
        IF path \in DOMAIN data_dir0
        THEN path \in DOMAIN data_dir /\ data_dir[path] = data_dir0[path]
        ELSE path \notin DOMAIN data_dir

\* C21: list output is all-or-nothing: when create_ticker_lists has returned,
\* whatever error occurred, either every named list file holds the whole of
\* its list or no list file was created or modified by the call.
C21_AllOrNothing ==
    pc = "returned" => (RunListsWritten \/ NoListTouched)

\* the columns the specification requires of the curator's input
SpecRequiredColumns == {"Symbol", "Exchange", MCAP, "score", "score_2"}

\* the file the call read lacks one of them
InputLacksColumn == latest_file # <<>> /\ ~(SpecRequiredColumns \subseteq df0.columns)

\* data/ticker_room holds no enhanced artifact
NoEnhancedFile == \A f \in DOMAIN ticker_room : ~MatchesEnhanced(f)

\* C22: create_ticker_lists never raises: it returns True or False, True only
\* with every list computed and written, False only after a step failed; when
\* the input lacks Symbol, Exchange, Market capitalization, score or score_2,
\* or no enhanced file exists, it returns False and no list file is written.
C22_FalseOnMissingInput ==
    pc = "returned" =>
        /\ success \in {"True", "False"}
        /\ success = "True" => (error = "none" /\ RunListsWritten)
        /\ success = "False" => error # "none"
        /\ (InputLacksColumn \/ NoEnhancedFile) => (success = "False" /\ NoListTouched)

\* the lines of a text file, as a reader splits them at the line feeds
RECURSIVE SplitLines(_)
SplitLines(text) ==
    IF text = <<>> THEN <<>>
    ELSE IF \A i \in 1..Len(text) : text[i] # "\n" THEN <<text>>
    ELSE LET end == CHOOSE i \in 1..Len(text) :
                        text[i] = "\n" /\ \A j \in 1..(i - 1) : text[j] # "\n"
         IN  <<SubSeq(text, 1, end - 1)>> \o SplitLines(SubSeq(text, end + 1, Len(text)))

\* the list of the current call that belongs at a path
ListOf(path) ==
    IF path = UnifiedPath THEN unified_ticker_list
    ELSE IF path = Score27Path THEN score_27_list
    ELSE worst_100_list

\* C23: after a call that returned True each list file holds exactly the
\* tokens of that call's list, one per line, in list order and unchanged,
\* whatever the file held before: a call repeated the same day leaves only
\* the later call's list in the file.
C23_FileHoldsOnlyThisRun ==
    (pc = "returned" /\ success = "True") =>
        \A path \in ListPaths :
            /\ path \in DOMAIN data_dir
            /\ SplitLines(data_dir[path]) = ListOf(path)

\* a second call the same day found a newer artifact and replaced the three
\* files the first call had written
C23_Witness ==
    /\ pc = "returned" /\ success = "True" /\ calls = 2
    /\ latest_file = NewerFileName
    /\ ListPaths \subseteq DOMAIN data_dir0
    /\ SplitLines(data_dir0[UnifiedPath]) =
           <<HeaderTop30, <<"NASDAQ", ":", "AAPL">>, HeaderTop50, <<"NYSE", ":", "JPM">>>>
    /\ SplitLines(data_dir[UnifiedPath]) = <<HeaderTop30, <<"NYSE", ":", "KO">>, HeaderTop50>>
    /\ data_dir0[Score27Path] # <<>>
    /\ data_dir[Score27Path] = <<>>
    /\ data_dir[Worst100Path] = <<"NYSE", ":", "KO", "\n">>

(***************************************************************************)
(* Claims on the whole pipeline (checked under SpecPipeline)               *)
(***************************************************************************)
\* the records of the raw snapshot
RawRecords == Range(waiting_room[RawFileName].cellrows)

\* the score of a raw record before any rounding:
\* 1 + (1 year + 6 months + 3 months) / 1000 + SMA21 / SMA200
UnroundedScore(raw) ==
    Add(Add(Int2Num(1), Div(Add(Add(raw[P1Y], raw[P6M]), raw[P3M]), Int2Num(1000))),
        Div(raw[SMA21], raw[SMA200]))

RoundedScore(raw) == Round2(UnroundedScore(raw))

\* the raw record a row of a DataFrame or of an artifact was computed from
RawOf(cells) == CHOOSE raw \in RawRecords : raw["Symbol"] = cells["Symbol"]

TokenOf(raw) == raw["Exchange"].s \o <<":">> \o raw["Symbol"].s

InList(list, raw) == \E i \in 1..Len(list) : list[i] = TokenOf(raw)

\* C24: the scores are rounded to 2 decimals before the sort and before the
\* artifact is written, so the sort and the curator's filters see rounded
\* values: a record is in the score-threshold list exactly when its rounded
\* score is at least 2.70 (an unrounded 2.697 is in), and a record of the
\* worst-performers list has a rounded score above 0 (an unrounded 0.004 is
\* never in it).
C24_RoundedValuesDecide ==
    /\ pc \in {"rounded", "sorted"} =>
          \A r \in Range(df.rows) : Score(r) = RoundedScore(RawOf(r.cells))
    /\ pc = "sorted" =>
          \A i, j \in 1..Len(df.rows) :
              i < j => ~Less(RoundedScore(RawOf(df.rows[i].cells)),
                             RoundedScore(RawOf(df.rows[j].cells)))
    /\ \A f \in DOMAIN ticker_room : \A i \in 1..Len(ticker_room[f].cellrows) :
          LET cells == ticker_room[f].cellrows[i]
          IN  cells["score"] = RoundedScore(RawOf(cells))
    /\ Score27Computed =>
          \A raw \in RawRecords :
              InList(score_27_list, raw) <=> ~Less(RoundedScore(raw), Hundredths(270))
    /\ Worst100Computed =>
          \A raw \in RawRecords :
              InList(worst_100_list, raw) => Less(Int2Num(0), RoundedScore(raw))

\* a snapshot of one record scoring 2.697 and one scoring 0.004: the first is
\* in the score-threshold list, the second is not among the worst performers
C24_Witness ==
    /\ pc = "returned" /\ success = "True"
    /\ Cardinality(RawRecords) = 2
    /\ \E raw \in RawRecords :
          /\ UnroundedScore(raw) = Num(2697, 1000)
          /\ score_27_list = <<TokenOf(raw)>>
          /\ worst_100_list = <<TokenOf(raw)>>
    /\ \E raw \in RawRecords :
          /\ UnroundedScore(raw) = Num(4, 1000)
          /\ ~InList(worst_100_list, raw)

(***************************************************************************)
(* Claims on failed files of the batch (checked under Spec)                *)
(***************************************************************************)
\* the files for which _process_single_file returned False in the current call
FailedFiles == attempted \ succeeded

\* C25: a file whose processing was reported as failed has no enhanced
\* artifact afterwards, complete or partial, so a file that a call skips as
\* already enhanced always has a complete artifact and a failed file is
\* attempted again by the next call.
C25_FailedFileLeavesNoArtifact ==
    /\ \A f \in FailedFiles : EnhancedName(f) \notin DOMAIN ticker_room
    /\ \A f \in skipped : ticker_room[EnhancedName(f)].kind = "full"

(***************************************************************************)
(* Claims on get_latest_top_monde_file (checked under SpecCurate)          *)
(***************************************************************************)
\* the enhanced files of ticker_room, and those whose name gives a date
EnhancedFiles == {f \in DOMAIN ticker_room : MatchesEnhanced(f)}
DateOf(f) == IF HasDatePrefix(f) THEN StrpTime(DateStr(f)) ELSE -1
ParsableFiles == {f \in EnhancedFiles : DateOf(f) >= 0}

\* C26: the file create_ticker_lists reads is an enhanced file of ticker_room
\* whose date is the greatest of the dates parsed from the enhanced file
\* names; files without a parsable date are passed over, so a file is found
\* whenever one has a date; with no enhanced file the call ends with a caught
\* FileNotFoundError, with enhanced files but no valid date with a caught
\* ValueError, and returns False in both cases.
C26_LatestByParsedDate ==
    /\ latest_file # <<>> =>
          /\ latest_file \in ParsableFiles
          /\ \A g \in ParsableFiles : DateOf(g) <= DateOf(latest_file)
    /\ (pc # "call" /\ ParsableFiles # {}) => latest_file # <<>>
    /\ (pc # "call" /\ EnhancedFiles = {}) =>
          (pc = "returned" /\ success = "False" /\ error = "FileNotFoundError")
    /\ (pc # "call" /\ EnhancedFiles # {} /\ ParsableFiles = {}) =>
          (pc = "returned" /\ success = "False" /\ error = "ValueError")

\* three enhanced files, two of them without a parsable date: the dated one
\* is read
C26_Witness ==
    /\ pc = "loaded"
    /\ Cardinality(EnhancedFiles) = 3
    /\ Cardinality(ParsableFiles) = 1
    /\ latest_file = EnhancedFileName("_", "2024-01-01", <<>>)

(***************************************************************************)
(* cleanup_files: the three moves between the data directories.  A file    *)
(* is a name (a sequence of pieces) and a content; here a content records  *)
(* the directory and the name the file had before the call.                *)
(***************************************************************************)
MaxCleanupFiles == 3

\* glob pattern "*.csv"
IsCsv(name) == name[Len(name)] = ".csv"

\* "_enhanced" in os.path.basename(f)
HasEnhanced(name) == \E i \in 1..Len(name) : name[i] = "_enhanced"

CleanupNames ==
    {RawFileName,
     EnhancedName(RawFileName),
     <<"SP500", "_", "2024-01-01", ".csv">>,
     <<"notes", ".txt">>}

DirNames == {"waiting_room", "ticker_room", "ready_to_use", "used_input_files"}

Content(dir, name) == [origin |-> dir, name |-> name]

\* a directory holding the files names, each with a content of its own
Directory(dir, names) == [f \in names |-> Content(dir, f)]

\* shutil.move(f, dest) with dest the path of a file: os.rename, which
\* replaces a file already at dest
ShutilMove(src, dst, f) ==
    [from |-> [n \in DOMAIN src \ {f} |-> src[n]],
     to |-> [n \in DOMAIN dst \cup {f} |-> IF n = f THEN src[f] ELSE dst[n]]]

batch_locals == <<csv_files, next_file, processed_count, result, runs, ticker_room0,
                  skipped, attempted, succeeded, files_read, previous>>

InitCleanup ==
    /\ df = NoFrame /\ df0 = NoFrame /\ out1 = NoFrame
    /\ required_columns = <<>> /\ missing_columns = <<>>
    /\ pc = "cleanup_call"
    /\ \E w, t, r, u \in SUBSET CleanupNames :
          /\ Cardinality(w) + Cardinality(t) + Cardinality(r) + Cardinality(u)
                <= MaxCleanupFiles
          /\ waiting_room = Directory("waiting_room", w)
          /\ ticker_room = Directory("ticker_room", t)
          /\ ready_to_use = Directory("ready_to_use", r)
          /\ used_input_files = Directory("used_input_files", u)
    /\ dirs0 = [d \in DirNames |->
                  IF d = "waiting_room" THEN waiting_room
                  ELSE IF d = "ticker_room" THEN ticker_room
                  ELSE IF d = "ready_to_use" THEN ready_to_use
                  ELSE used_input_files]
    /\ pending = {}
    /\ csv_files = <<>>
    /\ next_file = 1
    /\ processed_count = 0
    /\ result = "none"
    /\ runs = 0
    /\ ticker_room0 = <<>>
    /\ skipped = {}
    /\ attempted = {}
    /\ succeeded = {}
    /\ files_read = {}
    /\ previous = <<>>
    /\ NoCuration

\* waiting_files = glob.glob("data/waiting_room/*.csv")
GlobWaiting ==
    /\ pc = "cleanup_call"
    /\ pending' = {f \in DOMAIN waiting_room : IsCsv(f)}
    /\ pc' = "waiting_loop"
    /\ UNCHANGED <<tvars, cvars, waiting_room, ticker_room, batch_locals, fvars, lvars,
                   ovars, ready_to_use, used_input_files, dirs0>>

\* one iteration of the first loop: waiting_room -> used_input_files
MoveWaiting ==
    /\ pc = "waiting_loop"
    /\ \E f \in pending :
          LET moved == ShutilMove(waiting_room, used_input_files, f)
          IN  /\ waiting_room' = moved.from
              /\ used_input_files' = moved.to
              /\ pending' = pending \ {f}
    /\ UNCHANGED <<tvars, pc, cvars, ticker_room, batch_locals, fvars, lvars, ovars,
                   ready_to_use, dirs0>>

\* ticker_files = glob.glob("data/ticker_room/*.csv")
GlobTicker ==
    /\ pc = "waiting_loop"
    /\ pending = {}
    /\ pending' = {f \in DOMAIN ticker_room : IsCsv(f)}
    /\ pc' = "ticker_loop"
    /\ UNCHANGED <<tvars, cvars, waiting_room, ticker_room, batch_locals, fvars, lvars,
                   ovars, ready_to_use, used_input_files, dirs0>>

\* one iteration of the second loop: ticker_room -> ready_to_use
MoveTicker ==
    /\ pc = "ticker_loop"
    /\ \E f \in pending :
          LET moved == ShutilMove(ticker_room, ready_to_use, f)
          IN  /\ ticker_room' = moved.from
              /\ ready_to_use' = moved.to
              /\ pending' = pending \ {f}
    /\ UNCHANGED <<tvars, pc, cvars, waiting_room, batch_locals, fvars, lvars, ovars,
                   used_input_files, dirs0>>

\* ready_files = glob.glob("data/ready_to_use/*.csv")
GlobReady ==
    /\ pc = "ticker_loop"
    /\ pending = {}
    /\ pending' = {f \in DOMAIN ready_to_use : IsCsv(f)}
    /\ pc' = "ready_loop"
    /\ UNCHANGED <<tvars, cvars, waiting_room, ticker_room, batch_locals, fvars, lvars,
                   ovars, ready_to_use, used_input_files, dirs0>>

\* one iteration of the third loop: a file of ready_to_use without
\* "_enhanced" in its name goes to used_input_files
VisitReady ==
    /\ pc = "ready_loop"
    /\ \E f \in pending :
          /\ pending' = pending \ {f}
          /\ IF ~HasEnhanced(f)
             THEN LET moved == ShutilMove(ready_to_use, used_input_files, f)
                  IN  /\ ready_to_use' = moved.from
                      /\ used_input_files' = moved.to
             ELSE UNCHANGED <<ready_to_use, used_input_files>>
    /\ UNCHANGED <<tvars, pc, cvars, waiting_room, ticker_room, batch_locals, fvars,
                   lvars, ovars, dirs0>>

\* the third loop is over: cleanup_files returns
ReturnCleanup ==
    /\ pc = "ready_loop"
    /\ pending = {}
    /\ pc' = "cleaned"
    /\ UNCHANGED <<tvars, cvars, bvars, fvars, lvars, ovars, kvars>>

NextCleanup ==
    \/ GlobWaiting
    \/ MoveWaiting
    \/ GlobTicker
    \/ MoveTicker
    \/ GlobReady
    \/ VisitReady
    \/ ReturnCleanup

SpecCleanup == InitCleanup /\ [][NextCleanup]_vars

\* the contents of the CSV files present when cleanup_files was called
CsvContentsBefore ==
    UNION {{dirs0[d][f] : f \in {n \in DOMAIN dirs0[d] : IsCsv(n)}} : d \in DirNames}

ContentsOf(dir) == {dir[f] : f \in DOMAIN dir}

\* C27: when cleanup_files has completed, waiting_room and ticker_room hold
\* no CSV, every CSV of ready_to_use has "_enhanced" in its name, and the
\* content of every CSV present before the call is still in used_input_files
\* or ready_to_use.
C27_CleanupConservesFiles ==
    pc = "cleaned" =>
        /\ \A f \in DOMAIN waiting_room \cup DOMAIN ticker_room : ~IsCsv(f)
        /\ \A f \in DOMAIN ready_to_use : IsCsv(f) => HasEnhanced(f)
        /\ CsvContentsBefore \subseteq ContentsOf(used_input_files) \cup ContentsOf(ready_to_use)

====
